---- MODULE Spec2Model ----
(***************************************************************************)
(* Model of SpeechRecognizer (src/src/speechrecognizer.cpp) together with  *)
(* the SettingsManager values it reads (src/src/settingsmanager.cpp).      *)
(*                                                                         *)
(* The caller's (GUI) thread runs every public method and every slot to    *)
(* completion; the only places where it blocks while other threads run are *)
(* the decoder wait and the whisper_full call inside                       *)
(* extractAudioFromVideo, which are therefore separate steps (call.pc).    *)
(* A worker thread created by recognizeWithWhisper runs                    *)
(* recognizeAudioAsync in two steps: the entry check and the whisper_full  *)
(* call.  QThread::wait(3000) is modelled inside the calling action: the   *)
(* thread either runs to its end within the wait or the wait times out.    *)
(* Destroying a QThread that is still running is a qFatal (QThread::create *)
(* needs Qt >= 5.10), i.e. the process aborts: phase = "crashed".          *)
(* Using m_recognitionThread after deleteLater destroyed the object is     *)
(* undefined behaviour and is a nondeterministic choice of outcomes.       *)
(* m_whisperProcess is never assigned a process in this version of the     *)
(* code, so the branches guarded by it are dead and left out.              *)
(* QFile::remove is taken to succeed on an existing file.                  *)
(***************************************************************************)
EXTENDS Integers, Sequences, FiniteSets, TLC

\* ---------------------------------------------------------------- bounds
MaxReq == 2                  \* calls of recognizeFile / recognizeFromVideo
TermCap == 2                 \* terminal notifications counted per call
CtxCap == 2                  \* whisper contexts counted as loaded at once
MaxLen == 3                  \* elements of a reply's array, segments of a result

\* ------------------------------------------------------------ the world
NoFile == ""
NoCtx == ""
NoThread == 0
InputAudio == "a.wav"        \* the caller's audio file
InputVideo == "v.mp4"        \* the caller's video file
TempAudio == "v_temp.wav"    \* QDir::tempPath()/<baseName>_temp.wav
InputVideo2 == "w.mp4"       \* another video file of the caller
TempAudio2 == "w_temp.wav"
TempOf(videoFilePath) ==
  IF videoFilePath = InputVideo2 THEN TempAudio2 ELSE TempAudio
ExplicitOut == "out.wav"     \* the caller's explicit audioOutputPath
ModelFiles == {"m1", "m2"}   \* model files that exist and load
DefaultApiUrl == "https://api.example.com/asr"
SettingsPaths == {""} \cup ModelFiles
ApiUrls == {"", DefaultApiUrl}
ReplyKinds == {"text", "resultArray", "resultString", "resultOther",
               "noField", "badJson", "netError"}
Reqs == 1..MaxReq

VARIABLES
  phase,                \* "alive" | "destroyed" | "crashed"
  s_whisperPath,        \* SettingsManager::m_whisperPath
  s_apiUrl,             \* SettingsManager::m_apiUrl
  s_preferOnlineAPI,    \* SettingsManager::m_preferOnlineAPI
  m_whisperPath,
  m_whisperCtx,         \* NoCtx, or the model file the context was loaded from
  m_apiUrl,
  m_preferOnlineAPI,
  m_isRecognizing,
  m_shouldStop,
  m_currentAudioFile,
  m_tempAudioFile,
  m_audioSamples,       \* 0 = empty, r = the samples loaded for request r
  m_recognitionThread,  \* NoThread, or the thread object of request r
  m_networkManager,     \* TRUE when the QNetworkAccessManager exists
  disk,                 \* the files that exist
  thr,                  \* the QThread object created for each request
                        \*   (pc = "none": no such object, or not any more)
  netPending,           \* requests whose network reply is still to come
  netPreferred,         \* those of them sent because remote was preferred
  posted,               \* the caller thread's event queue (FIFO)
  call,                 \* the caller thread's position inside recognizeFromVideo
  nCtxLive,             \* whisper contexts created and not yet freed
  ctxReleased,          \* whisper_free has been called on a context
  nreq,                 \* number of recognize calls made so far
  req,                  \* per call: what it was and what was emitted for it
  reply,                \* the JSON body of a reply given to handleOnlineAPIReply
  notified,             \* what handleOnlineAPIReply emitted for that body
  segments,             \* the segment texts the engine holds after whisper_full
  assembled,            \* the transcript assembled from them, and on which path
  dec,                  \* one recognizeFromVideo call seen at the level of its
                        \*   decoder processes, timers and progress values
  cfg                   \* the SettingsManager's members, the persisted store
                        \*   and the values in the settings dialog

vars == <<phase, s_whisperPath, s_apiUrl, s_preferOnlineAPI, m_whisperPath,
          m_whisperCtx, m_apiUrl, m_preferOnlineAPI, m_isRecognizing,
          m_shouldStop, m_currentAudioFile, m_tempAudioFile, m_audioSamples,
          m_recognitionThread, m_networkManager, disk, thr, netPending,
          netPreferred, posted, call, nCtxLive, ctxReleased, nreq, req,
          reply, notified, segments, assembled, dec, cfg>>

\* The whole state as one record, so that the statements of a method can be
\* applied one after the other.
Cur ==
  [phase |-> phase, s_whisperPath |-> s_whisperPath, s_apiUrl |-> s_apiUrl,
   s_preferOnlineAPI |-> s_preferOnlineAPI, m_whisperPath |-> m_whisperPath,
   m_whisperCtx |-> m_whisperCtx, m_apiUrl |-> m_apiUrl,
   m_preferOnlineAPI |-> m_preferOnlineAPI, m_isRecognizing |-> m_isRecognizing,
   m_shouldStop |-> m_shouldStop, m_currentAudioFile |-> m_currentAudioFile,
   m_tempAudioFile |-> m_tempAudioFile, m_audioSamples |-> m_audioSamples,
   m_recognitionThread |-> m_recognitionThread,
   m_networkManager |-> m_networkManager, disk |-> disk, thr |-> thr,
   netPending |-> netPending, netPreferred |-> netPreferred,
   posted |-> posted, call |-> call, nCtxLive |-> nCtxLive,
   ctxReleased |-> ctxReleased, nreq |-> nreq, req |-> req]

Install(s) ==
  /\ phase' = s.phase
  /\ s_whisperPath' = s.s_whisperPath
  /\ s_apiUrl' = s.s_apiUrl
  /\ s_preferOnlineAPI' = s.s_preferOnlineAPI
  /\ m_whisperPath' = s.m_whisperPath
  /\ m_whisperCtx' = s.m_whisperCtx
  /\ m_apiUrl' = s.m_apiUrl
  /\ m_preferOnlineAPI' = s.m_preferOnlineAPI
  /\ m_isRecognizing' = s.m_isRecognizing
  /\ m_shouldStop' = s.m_shouldStop
  /\ m_currentAudioFile' = s.m_currentAudioFile
  /\ m_tempAudioFile' = s.m_tempAudioFile
  /\ m_audioSamples' = s.m_audioSamples
  /\ m_recognitionThread' = s.m_recognitionThread
  /\ m_networkManager' = s.m_networkManager
  /\ disk' = s.disk
  /\ thr' = s.thr
  /\ netPending' = s.netPending
  /\ netPreferred' = s.netPreferred
  /\ posted' = s.posted
  /\ call' = s.call
  /\ nCtxLive' = s.nCtxLive
  /\ ctxReleased' = s.ctxReleased
  /\ nreq' = s.nreq
  /\ req' = s.req
  /\ UNCHANGED <<reply, notified, segments, assembled, dec, cfg>>

NoThr == [pc |-> "none", ctxFreed |-> FALSE, bufTouched |-> FALSE]
NoReq == [idle0 |-> FALSE, term |-> 0]
IdleCall == [pc |-> "idle", req |-> 0, audioPath |-> NoFile]

\* ------------------------------------------- the body of a remote reply
\* A QJsonValue: absent (the key is not in the object), a string, a number,
\* or an array of strings and numbers.
JAbsent == [t |-> "absent", s |-> "", a |-> <<>>]
JStr(str) == [t |-> "string", s |-> str, a |-> <<>>]
JNum == [t |-> "number", s |-> "", a |-> <<>>]
JArr(arr) == [t |-> "array", s |-> "", a |-> arr]

ElemValues == {JStr("a"), JStr("b"), JStr("c"), JNum}
ArrayValues ==
  {JArr(arr) : arr \in UNION {[1..n -> ElemValues] : n \in 0..MaxLen}}
TextValues == {JAbsent, JStr("xyz"), JStr("t"), JNum}
ResultValues == {JAbsent, JStr("xyz"), JNum} \cup ArrayValues

\* The reply bodies: bytes that are no JSON, JSON that is no object, and
\* objects with or without the keys "text" and "result".
NoDoc == [kind |-> "none", text |-> JAbsent, result |-> JAbsent]
Docs ==
  {[kind |-> k, text |-> JAbsent, result |-> JAbsent] : k \in {"badJson", "notObject"}}
    \cup {[kind |-> "object", text |-> tx, result |-> rs]
            : tx \in TextValues, rs \in ResultValues}

NoNote == [sig |-> "none", text |-> ""]

\* QJsonValue::toString(): the string, or a null QString for any other type
toString(v) == IF v.t = "string" THEN v.s ELSE ""

\* QStringList::join(separator)
RECURSIVE join(_, _)
join(list, separator) ==
  IF list = <<>> THEN ""
  ELSE IF Len(list) = 1 THEN list[1]
  ELSE list[1] \o separator \o join(Tail(list), separator)

\* results.join("") with a blank slipped in as the separator
joinResults_Spaced(results) == join(results, " ")

\* results.join("")
joinResults(results) == join(results, "")

\* The no-error branch of handleOnlineAPIReply: the signal emitted for a
\* reply body and, for recognitionFinished, its text.
onlineReplyOutcome(doc) ==
  IF doc.kind # "object"
  THEN [sig |-> "error", text |-> ""]
  ELSE IF doc.text.t # "absent"
  THEN [sig |-> "finished", text |-> toString(doc.text)]
  ELSE IF doc.result.t = "absent"
  THEN [sig |-> "error", text |-> ""]
  ELSE IF doc.result.t = "array"
  THEN [sig |-> "finished",
        text |-> joinResults([i \in 1..Len(doc.result.a) |->
                                toString(doc.result.a[i])])]
  ELSE IF doc.result.t = "string"
  THEN [sig |-> "finished", text |-> toString(doc.result)]
  ELSE [sig |-> "error", text |-> ""]

\* ------------------------------------------ the segments of a local result
SegmentTexts == {"hello", "world", "x"}
SegmentLists == UNION {[1..n -> SegmentTexts] : n \in 0..MaxLen}

NoTranscript == [path |-> "none", text |-> ""]

\* recognizeAudioAsync: every segment, and a blank after each but the last
RECURSIVE workerText(_, _)
workerText(segs, i) ==
  IF i > Len(segs) THEN ""
  ELSE segs[i] \o (IF i < Len(segs) THEN " " ELSE "") \o workerText(segs, i + 1)

\* extractAudioFromVideo: every segment, and a newline after each
RECURSIVE extractionText(_, _)
extractionText(segs, i) ==
  IF i > Len(segs) THEN ""
  ELSE segs[i] \o "\n" \o extractionText(segs, i + 1)

\* ------------------------------------------------ the decoder processes
\* One recognizeFromVideo call followed through its decoder processes: the
\* version probe of isFfmpegAvailable (run by recognizeFromVideo and again by
\* extractAudioFromVideo), the extracting process and the process of
\* loadAudioFile, each a local QProcess of its function, then whisper_full
\* and the backend chosen by recognizeFile.  Times are in milliseconds.
\* A QProcess that is destroyed while its process runs kills it.
maxProcessTime == 60000
maxWaitTime == 30000
ReadWait == 1000

\* What a run of "ffmpeg -version" can do.
ProbeRuns ==
  {[started |-> FALSE, finished |-> FALSE, exitCode |-> 1, version |-> FALSE],
   [started |-> TRUE, finished |-> FALSE, exitCode |-> 1, version |-> FALSE]}
    \cup {[started |-> TRUE, finished |-> TRUE, exitCode |-> c, version |-> v]
            : c \in {0, 1}, v \in BOOLEAN}

\* How a process start can go: the program cannot be started, it is not up
\* within the time of waitForStarted, or it is up.
StartRuns == {"failed", "slow", "started"}

IdleDec ==
  [pc |-> "idle", probes |-> <<>>, probeProc |-> "none", ffmpeg |-> "none",
   loader |-> "none", exitCode |-> 0, clock |-> 0, total |-> 0,
   ret |-> "none", errors |-> 0, prog |-> -1, stage |-> "none"]

\* isFfmpegAvailable with the exit code as the only test
isFfmpegAvailable_ExitCodeOnly(p) ==
  p.started /\ p.finished /\ p.exitCode = 0

\* isFfmpegAvailable: the value returned for a run p of the probe
isFfmpegAvailable(p) ==
  p.started /\ p.finished /\ p.exitCode = 0 /\ p.version

\* the probe's process when isFfmpegAvailable has returned
ProbeProcAfter(p) ==
  IF ~p.started THEN "none" ELSE IF ~p.finished THEN "killed" ELSE "exited"

\* emit recognitionError(...); return false
DecFail(d, why) ==
  [d EXCEPT !.pc = "returned", !.ret = why, !.errors = @ + 1]

\* loadAudioFile's read loop has ended by its counter with the kill left out
loadTimedOut_NoKill(d) ==
  [DecFail(d, "loadTimeout") EXCEPT !.loader = "running"]

\* loadAudioFile's read loop has ended by its counter: kill, return false,
\* and extractAudioFromVideo reports the failed load
loadTimedOut(d) ==
  [DecFail(d, "loadTimeout") EXCEPT !.loader = "killed"]

\* The step changes dec only.
OnlyDec(d) ==
  /\ dec' = d
  /\ UNCHANGED <<phase, s_whisperPath, s_apiUrl, s_preferOnlineAPI, m_whisperPath,
                 m_whisperCtx, m_apiUrl, m_preferOnlineAPI, m_isRecognizing,
                 m_shouldStop, m_currentAudioFile, m_tempAudioFile, m_audioSamples,
                 m_recognitionThread, m_networkManager, disk, thr, netPending,
                 netPreferred, posted, call, nCtxLive, ctxReleased, nreq, req,
                 reply, notified, segments, assembled, cfg>>

\* The probe of recognizeFromVideo, then the probe of extractAudioFromVideo.
DecProbe(p) ==
  /\ dec.pc \in {"idle", "probed"}
  /\ LET d == [dec EXCEPT !.probes = Append(@, p), !.probeProc = ProbeProcAfter(p)]
     IN IF isFfmpegAvailable(p)
        THEN OnlyDec([d EXCEPT !.pc = IF dec.pc = "idle" THEN "probed" ELSE "spawn"])
        ELSE OnlyDec(DecFail(d, "unavailable"))

\* ffmpegProcess.start and waitForStarted(5000), then recognitionProgress(0)
DecSpawn(st) ==
  /\ dec.pc = "spawn"
  /\ IF st = "started"
     THEN OnlyDec([dec EXCEPT !.pc = "extracting", !.ffmpeg = "running",
                              !.clock = 0, !.prog = 0, !.stage = "extraction"])
     ELSE OnlyDec([DecFail(dec, "startFailed")
                     EXCEPT !.ffmpeg = IF st = "slow" THEN "killed" ELSE "none"])

\* One turn of the polling loop of extractAudioFromVideo: the time test, then
\* waitForReadyRead(1000), which returns with data after dt or without data
\* at its limit or when the process has ended.
DecExtractPoll(dt, data, ends, code) ==
  /\ dec.pc = "extracting"
  /\ data \/ ends \/ dt = ReadWait
  /\ IF dec.clock > maxProcessTime
     THEN OnlyDec([DecFail(dec, "extractTimeout") EXCEPT !.ffmpeg = "killed"])
     ELSE LET d == [dec EXCEPT !.clock = @ + dt,
                               !.prog = IF data THEN 25 ELSE @]
          IN IF ends
             THEN OnlyDec([d EXCEPT !.pc = "extracted", !.ffmpeg = "exited",
                                    !.exitCode = code])
             ELSE OnlyDec(d)

\* The exit code and the output file, then recognitionProgress(50)
DecExtractCheck(fileExists) ==
  /\ dec.pc = "extracted"
  /\ IF dec.exitCode # 0 THEN OnlyDec(DecFail(dec, "exitCode"))
     ELSE IF ~fileExists THEN OnlyDec(DecFail(dec, "noOutput"))
     ELSE OnlyDec([dec EXCEPT !.pc = "loadSpawn", !.prog = 50])

\* loadAudioFile: ffmpegProcess.start and waitForStarted(2000)
DecLoadSpawn(st) ==
  /\ dec.pc = "loadSpawn"
  /\ IF st = "started"
     THEN OnlyDec([dec EXCEPT !.pc = "loading", !.loader = "running",
                              !.clock = 0, !.total = 0])
     ELSE OnlyDec([DecFail(dec, "loadFailed")
                     EXCEPT !.loader = IF st = "slow" THEN "killed" ELSE "none"])

\* One turn of the read loop of loadAudioFile: waitForReadyRead(1000), the
\* state test, totalWaitTime += 1000, and the loop test.
DecLoadPoll(dt, data, ends, code) ==
  /\ dec.pc = "loading"
  /\ data \/ ends \/ dt = ReadWait
  /\ LET d == [dec EXCEPT !.clock = @ + dt] IN
     IF ends
     THEN OnlyDec([d EXCEPT !.pc = "loaded", !.loader = "exited", !.exitCode = code])
     ELSE LET e == [d EXCEPT !.total = @ + ReadWait] IN
          IF e.total >= maxWaitTime THEN OnlyDec(loadTimedOut(e)) ELSE OnlyDec(e)

\* loadAudioFile after the loop: exit code and data, then back in
\* extractAudioFromVideo recognitionProgress(75)
DecLoadCheck(hasData) ==
  /\ dec.pc = "loaded"
  /\ IF dec.exitCode # 0 \/ ~hasData THEN OnlyDec(DecFail(dec, "loadFailed"))
     ELSE OnlyDec([dec EXCEPT !.pc = "whisper", !.prog = 75,
                              !.stage = "transcription"])

\* whisper_full on the caller's thread, then recognitionProgress(100) and
\* recognitionFinished
DecWhisper(ok) ==
  /\ dec.pc = "whisper"
  /\ IF ok THEN OnlyDec([dec EXCEPT !.pc = "select", !.prog = 100])
     ELSE OnlyDec(DecFail(dec, "whisperFailed"))

\* recognizeFile(audioPath): the remote request is sent and
\* recognitionProgress(10) emitted, or the worker thread is started, or no
\* backend is there.
DecSelect(backend) ==
  /\ dec.pc = "select"
  /\ CASE backend = "remote" -> OnlyDec([dec EXCEPT !.pc = "remotePending", !.prog = 10])
       [] backend = "local" -> OnlyDec([dec EXCEPT !.pc = "localRunning"])
       [] OTHER -> OnlyDec(DecFail(dec, "noBackend"))

\* The reply of the remote service, or the end of the worker thread.
DecBackendEnd(ok) ==
  /\ dec.pc \in {"remotePending", "localRunning"}
  /\ IF ok
     THEN OnlyDec([dec EXCEPT !.pc = "returned", !.ret = "ok",
                              !.prog = IF dec.pc = "remotePending" THEN 100 ELSE @])
     ELSE OnlyDec(DecFail(dec, "backendFailed"))

NextDecoder ==
  \/ \E p \in ProbeRuns : DecProbe(p)
  \/ \E st \in StartRuns : DecSpawn(st)
  \/ \E dt \in {0, ReadWait}, data \in BOOLEAN, ends \in BOOLEAN, code \in {0, 1} :
       DecExtractPoll(dt, data, ends, code)
  \/ \E f \in BOOLEAN : DecExtractCheck(f)
  \/ \E st \in StartRuns : DecLoadSpawn(st)
  \/ \E dt \in {0, ReadWait}, data \in BOOLEAN, ends \in BOOLEAN, code \in {0, 1} :
       DecLoadPoll(dt, data, ends, code)
  \/ \E h \in BOOLEAN : DecLoadCheck(h)
  \/ \E ok \in BOOLEAN : DecWhisper(ok)
  \/ \E b \in {"remote", "local", "none"} : DecSelect(b)
  \/ \E ok \in BOOLEAN : DecBackendEnd(ok)

\* ----------------------------------------------------------- settings
\* The SettingsManager with the main window subscribed to settingsChanged
\* (mainwindow.cpp 122, a direct connection: the slot runs inside the emit).
\* The setters in the order saveSettingsFromUI calls them, by QSettings key.
SettingKeys ==
  <<"Path", "ModelSize", "Language", "PreferOnlineAPI", "ApiUrl", "SaveDirectory">>
KeySet == {SettingKeys[i] : i \in 1..Len(SettingKeys)}
\* Each setting has its default value and one other value.
SettingVals == {"default", "other"}

\* setDefaultValues
setDefaultValues == [k \in KeySet |-> "default"]

\* The settings file: absent (no keys), or holding a value for every key.
Stores ==
  {[present |-> FALSE, v |-> setDefaultValues]}
    \cup {[present |-> TRUE, v |-> f] : f \in [KeySet -> SettingVals]}

\* loadSettings on an initialized manager
loadSettings(store) ==
  IF ~store.present THEN setDefaultValues ELSE store.v

\* MainWindow::onSettingsChanged: the recognizer is replaced and
\* initSpeechRecognition runs SettingsManager::initialize, which loads the
\* members from the store.
onSettingsChanged(c) == [c EXCEPT !.mem = loadSettings(c.store)]

\* A setter of SettingsManager
setValue(c, k, v) ==
  IF c.mem[k] # v THEN onSettingsChanged([c EXCEPT !.mem[k] = v]) ELSE c

\* saveSettings
saveSettings(c) == [c EXCEPT !.store = [present |-> TRUE, v |-> c.mem]]

\* The setters of saveSettingsFromUI from the i-th on
RECURSIVE applySetters(_, _)
applySetters(c, i) ==
  IF i > Len(SettingKeys) THEN c
  ELSE applySetters(setValue(c, SettingKeys[i], c.ui[SettingKeys[i]]), i + 1)

saveSettingsFromUI(c) ==
  [saveSettings(applySetters(c, 1)) EXCEPT !.saved = TRUE]

\* The program has started on a settings file st and the dialog shows the
\* loaded values.
CfgAfterStart(st) ==
  [mem |-> loadSettings(st), store |-> st, ui |-> loadSettings(st), saved |-> FALSE]
FreshCfg == CfgAfterStart([present |-> FALSE, v |-> setDefaultValues])

\* The step changes cfg only.
OnlyCfg(c) ==
  /\ cfg' = c
  /\ UNCHANGED <<phase, s_whisperPath, s_apiUrl, s_preferOnlineAPI, m_whisperPath,
                 m_whisperCtx, m_apiUrl, m_preferOnlineAPI, m_isRecognizing,
                 m_shouldStop, m_currentAudioFile, m_tempAudioFile, m_audioSamples,
                 m_recognitionThread, m_networkManager, disk, thr, netPending,
                 netPreferred, posted, call, nCtxLive, ctxReleased, nreq, req,
                 reply, notified, segments, assembled, dec>>

\* The user changes a value in the dialog.
EditUi(k, v) ==
  /\ cfg.ui[k] # v
  /\ OnlyCfg([cfg EXCEPT !.ui[k] = v, !.saved = FALSE])

\* The dialog is accepted.
SaveSettingsFromUI == OnlyCfg(saveSettingsFromUI(cfg))

\* The dialog is opened again: loadSettingsToUI
LoadSettingsToUI ==
  /\ cfg.ui # cfg.mem
  /\ OnlyCfg([cfg EXCEPT !.ui = cfg.mem, !.saved = FALSE])

NextSettings ==
  \/ \E k \in KeySet, v \in SettingVals : EditUi(k, v)
  \/ SaveSettingsFromUI
  \/ LoadSettingsToUI

\* ------------------------------------------------------------- helpers
ThreadRunning(s, t) == s.thr[t].pc \in {"started", "transcribing"}

\* Requests with work going on: a decoder or whisper_full on the caller's
\* thread, a worker thread that has not finished, a reply still to come.
InFlightOf(s) ==
  {r \in Reqs : ThreadRunning(s, r)} \cup s.netPending
    \cup (IF s.call.pc = "idle" THEN {} ELSE {s.call.req})

\* Requests whose queued completion lambda has not run yet.
LambdasOf(s) ==
  {s.posted[i].req : i \in {j \in DOMAIN s.posted : s.posted[j].type # "delete"}}

\* emit recognitionFinished / recognitionError on behalf of request r: one
\* more terminal notification for r (counted up to TermCap)
EmitTerminal(s, r) ==
  [s EXCEPT !.req[r].term = IF @ < TermCap THEN @ + 1 ELSE @]
EmitFinished(s, r) == EmitTerminal(s, r)
EmitError(s, r) == EmitTerminal(s, r)

\* The recognizer is gone.  Nothing of its state is left but the files and
\* what the caller saw.
Gone(s) ==
  [phase |-> "gone", s_whisperPath |-> "", s_apiUrl |-> "",
   s_preferOnlineAPI |-> FALSE, m_whisperPath |-> "", m_whisperCtx |-> NoCtx,
   m_apiUrl |-> "", m_preferOnlineAPI |-> FALSE, m_isRecognizing |-> FALSE,
   m_shouldStop |-> FALSE, m_currentAudioFile |-> NoFile,
   m_tempAudioFile |-> NoFile, m_audioSamples |-> 0,
   m_recognitionThread |-> NoThread, m_networkManager |-> FALSE,
   disk |-> s.disk, thr |-> [t \in Reqs |-> NoThr], netPending |-> {},
   netPreferred |-> {}, posted |-> <<>>, call |-> IdleCall,
   nCtxLive |-> s.nCtxLive, ctxReleased |-> FALSE,
   nreq |-> s.nreq, req |-> s.req]

\* The process aborted (qFatal, or undefined behaviour taking it down).
Crash(s) ==
  [Gone(s) EXCEPT !.phase = "crashed", !.nCtxLive = 0]

\* ------------------------------------------------- the worker thread
\* The thread's run function has returned: the completion lambda was queued
\* with QMetaObject::invokeMethod, then QThread::finished (connected to
\* deleteLater) is queued for the thread object.
FinishThread(s, t, lam) ==
  [s EXCEPT !.thr[t] = [NoThr EXCEPT !.pc = "finished"],
            !.posted = s.posted \o <<[type |-> lam, req |-> t],
                                     [type |-> "delete", req |-> t]>>]

\* Another whisper_full call is running on the context that thread t uses.
Overlap(s, t) ==
  /\ s.thr[t].pc = "transcribing"
  /\ ~s.thr[t].ctxFreed
  /\ \/ s.call.pc = "inWhisper"
     \/ \E u \in Reqs \ {t} : s.thr[u].pc = "transcribing" /\ ~s.thr[u].ctxFreed

\* recognizeAudioAsync from the thread's current position to its end.
\* whisper_full on a freed context or on a buffer that was cleared or
\* reloaded under it is undefined behaviour: it may also take the process down.
RunToEnd(s, t) ==
  LET lams == IF s.thr[t].pc = "started"
                 /\ (s.m_whisperCtx = NoCtx \/ s.m_audioSamples = 0)
              THEN {"error"}
              ELSE {"error", "finished"}
      ub == s.thr[t].pc = "transcribing"
              /\ (s.thr[t].ctxFreed \/ s.thr[t].bufTouched \/ Overlap(s, t))
  IN {FinishThread(s, t, l) : l \in lams} \cup (IF ub THEN {Crash(s)} ELSE {})

\* QThread::wait(3000) on a running thread: the thread ends in time, or the
\* wait times out and the thread is still running.
WaitThread(s, t) == {s} \cup RunToEnd(s, t)

\* delete m_recognitionThread on an object that exists and is not running
DeleteThread(s, t) ==
  [s EXCEPT !.thr[t] = NoThr,
            !.m_recognitionThread = NoThread,
            !.posted = SelectSeq(s.posted,
                         LAMBDA e : ~(e.type = "delete" /\ e.req = t))]

\* whisper_free(m_whisperCtx); m_whisperCtx = nullptr
FreeCtx(s) ==
  IF s.m_whisperCtx = NoCtx THEN s
  ELSE [s EXCEPT !.m_whisperCtx = NoCtx,
                 !.nCtxLive = @ - 1,
                 !.ctxReleased = TRUE,
                 !.thr = [t \in Reqs |->
                           IF s.thr[t].pc = "transcribing"
                           THEN [s.thr[t] EXCEPT !.ctxFreed = TRUE]
                           ELSE s.thr[t]]]

\* m_whisperCtx = whisper_init_from_file_with_params(path): a new context
\* is created, whatever m_whisperCtx pointed to before.
LoadCtx(s, path) ==
  [s EXCEPT !.m_whisperCtx = path,
            !.nCtxLive = IF @ < CtxCap THEN @ + 1 ELSE @]

\* any write to m_audioSamples (clear, resize, memcpy) with new content v
WriteSamples(s, v) ==
  [s EXCEPT !.m_audioSamples = v,
            !.thr = [t \in Reqs |->
                      IF s.thr[t].pc = "transcribing"
                      THEN [s.thr[t] EXCEPT !.bufTouched = TRUE]
                      ELSE s.thr[t]]]

\* ------------------------------------------------------ applySettings
\* applySettings with the release of the old context left out.
ApplySettings_NoFree(s) ==
  LET np == s.s_whisperPath
      s1 == IF np # "" /\ np # s.m_whisperPath
            THEN LET f == [s EXCEPT !.m_whisperPath = np]
                 IN IF np \in ModelFiles
                    THEN LoadCtx(f, np)
                    ELSE f
            ELSE s
  IN [s1 EXCEPT !.m_apiUrl = s.s_apiUrl,
                !.m_preferOnlineAPI = s.s_preferOnlineAPI]

ApplySettings(s) ==
  LET np == s.s_whisperPath
      s1 == IF np # "" /\ np # s.m_whisperPath
            THEN LET f == FreeCtx([s EXCEPT !.m_whisperPath = np])
                 IN IF np \in ModelFiles
                    THEN LoadCtx(f, np)
                    ELSE f
            ELSE s
  IN [s1 EXCEPT !.m_apiUrl = s.s_apiUrl,
                !.m_preferOnlineAPI = s.s_preferOnlineAPI]

\* ------------------------------------------------------------ cleanup
CleanupThread(s) ==
  LET t == s.m_recognitionThread IN
  IF t = NoThread THEN {s}
  ELSE IF s.thr[t].pc = "none"
       THEN \* isRunning() on a destroyed object
            {s, Crash(s),
             [s EXCEPT !.m_shouldStop = TRUE, !.m_recognitionThread = NoThread]}
       ELSE IF ~ThreadRunning(s, t) THEN {s}
            ELSE {IF w.phase = "crashed" \/ ThreadRunning(w, t)
                  THEN Crash(w)
                  ELSE DeleteThread(w, t)
                  : w \in WaitThread([s EXCEPT !.m_shouldStop = TRUE], t)}

CleanupFiles(s) ==
  LET s1 == IF s.m_currentAudioFile # NoFile /\ s.m_currentAudioFile \in s.disk
            THEN [s EXCEPT !.disk = @ \ {s.m_currentAudioFile},
                           !.m_currentAudioFile = NoFile]
            ELSE s
      s2 == IF s1.m_tempAudioFile # NoFile /\ s1.m_tempAudioFile \in s1.disk
            THEN [s1 EXCEPT !.disk = @ \ {s1.m_tempAudioFile},
                            !.m_tempAudioFile = NoFile]
            ELSE s1
  IN [WriteSamples(s2, 0) EXCEPT !.m_isRecognizing = FALSE,
                                 !.m_shouldStop = FALSE]

Cleanup(s) ==
  {IF w.phase = "crashed" THEN w ELSE CleanupFiles(w) : w \in CleanupThread(s)}

\* --------------------------------------------------------- the backends
\* Each returns the set of possible [s |-> state after, ret |-> return value].
\* isFfmpegAvailable() and loadAudioFile() depend on the decoder process and
\* are environment choices.
recognizeWithWhisper(s, r, audioFilePath) ==
  LET notAvail == [s |-> EmitError(s, r), ret |-> FALSE]
      cleared == WriteSamples(s, 0)
      loadFail == [s |-> EmitError(cleared, r), ret |-> FALSE]
      loaded == WriteSamples(cleared, r)
      started == [s |-> [loaded EXCEPT !.m_isRecognizing = TRUE,
                                        !.m_shouldStop = FALSE,
                                        !.m_recognitionThread = r,
                                        !.thr[r] = [NoThr EXCEPT !.pc = "started"]],
                  ret |-> TRUE]
  IN {notAvail}
     \cup (IF s.m_whisperCtx = NoCtx THEN {}
           ELSE {loadFail}
                \cup (IF audioFilePath \in s.disk THEN {started} ELSE {}))

recognizeWithOnlineAPI(s, r, audioFilePath) ==
  IF ~s.m_networkManager \/ audioFilePath = NoFile \/ audioFilePath \notin s.disk
  THEN {[s |-> s, ret |-> FALSE]}
  ELSE {[s |-> [s EXCEPT !.netPending = @ \cup {r}], ret |-> TRUE]}

\* The request just sent was sent with remote as the preferred backend.
SentAsPreferred(o, r) ==
  IF o.ret THEN [o EXCEPT !.s.netPreferred = @ \cup {r}] ELSE o

\* recognizeFile with the selection slipped: remote whenever an endpoint is
\* set, whatever the preference.
recognizeFile_RemoteFirst(s, r, audioFilePath) ==
  IF s.m_isRecognizing
  THEN {[s |-> EmitError(s, r), ret |-> FALSE]}
  ELSE IF audioFilePath \notin s.disk
  THEN {[s |-> EmitError(s, r), ret |-> FALSE]}
  ELSE LET s1 == [s EXCEPT !.m_currentAudioFile = audioFilePath] IN
       IF s1.m_apiUrl # ""
       THEN recognizeWithOnlineAPI(s1, r, audioFilePath)
       ELSE IF s1.m_whisperCtx # NoCtx
       THEN recognizeWithWhisper(s1, r, audioFilePath)
       ELSE {[s |-> EmitError(s1, r), ret |-> FALSE]}

recognizeFile(s, r, audioFilePath) ==
  IF s.m_isRecognizing
  THEN {[s |-> EmitError(s, r), ret |-> FALSE]}
  ELSE IF audioFilePath \notin s.disk
  THEN {[s |-> EmitError(s, r), ret |-> FALSE]}
  ELSE LET s1 == [s EXCEPT !.m_currentAudioFile = audioFilePath] IN
       IF s1.m_preferOnlineAPI /\ s1.m_apiUrl # ""
       THEN {SentAsPreferred(o, r) : o \in recognizeWithOnlineAPI(s1, r, audioFilePath)}
       ELSE IF s1.m_whisperCtx # NoCtx
       THEN recognizeWithWhisper(s1, r, audioFilePath)
       ELSE IF s1.m_apiUrl # ""
       THEN recognizeWithOnlineAPI(s1, r, audioFilePath)
       ELSE {[s |-> EmitError(s1, r), ret |-> FALSE]}

\* A new call of recognizeFile / recognizeFromVideo by the caller.
\*   idle0: nothing at all was going on when the call was made
NewCall(s) ==
  [s EXCEPT !.nreq = @ + 1,
            !.req[s.nreq + 1] =
               [NoReq EXCEPT !.idle0 = ~s.m_isRecognizing /\ InFlightOf(s) = {}
                                        /\ LambdasOf(s) = {}]]

\* ------------------------------------------------------------- actions
MainIdle == phase = "alive" /\ call.pc = "idle"

RecognizeFile(audioFilePath) ==
  /\ MainIdle
  /\ nreq < MaxReq
  /\ \E o \in recognizeFile(NewCall(Cur), nreq + 1, audioFilePath) :
       Install(o.s)

\* recognizeFromVideo up to the start of the decoder process.  The checks of
\* extractAudioFromVideo that come before the process runs (input readable,
\* decoder probe, output directory, process start) fail or pass by the
\* environment's choice.
PreStartFailures == {"unreadable", "noFfmpeg", "noDir", "startFail"}

RecognizeFromVideoBegin(videoFilePath, audioOutputPath) ==
  /\ MainIdle
  /\ nreq < MaxReq
  /\ LET r == nreq + 1
         s0 == NewCall(Cur)
         early == EmitError(s0, r)
         audioPath == IF audioOutputPath = NoFile THEN TempOf(videoFilePath)
                      ELSE audioOutputPath
         s1 == IF audioOutputPath = NoFile
               THEN [s0 EXCEPT !.m_tempAudioFile = audioPath]
               ELSE s0
         running == [s1 EXCEPT !.call = [pc |-> "extracting", req |-> r,
                                         audioPath |-> audioPath]]
     IN IF videoFilePath = NoFile \/ videoFilePath \notin disk
        THEN Install(early)
        ELSE \/ Install(early)                \* isFfmpegAvailable() is false
             \/ /\ m_whisperCtx = NoCtx
                /\ Install(early)
             \/ /\ m_whisperCtx # NoCtx
                /\ \/ \E f \in PreStartFailures :
                        \E s2 \in Cleanup(EmitError(s1, r)) : Install(s2)
                   \/ Install(running)

MainOverlap(s) ==
  \E u \in Reqs : s.thr[u].pc = "transcribing" /\ ~s.thr[u].ctxFreed

\* The decoder process has ended (or was killed at the 60 s limit) and the
\* rest of extractAudioFromVideo runs up to the whisper_full call.
DecoderOutcomes == {"exit0", "exitNonZero", "timeout"}

RecognizeFromVideoExtracted(outcome, written, loads) ==
  /\ phase = "alive"
  /\ call.pc = "extracting"
  /\ LET r == call.req
         s1 == [Cur EXCEPT !.disk = IF written THEN @ \cup {call.audioPath} ELSE @]
         failed == [EmitError(s1, r) EXCEPT !.call = IdleCall]
     IN IF outcome = "exit0" /\ call.audioPath \in s1.disk /\ loads
           /\ m_whisperCtx # NoCtx
        THEN Install([s1 EXCEPT !.call.pc = "inWhisper"])
        ELSE \E s2 \in Cleanup(failed) : Install(s2)

\* whisper_full on the caller's thread has returned.
RecognizeFromVideoTranscribed(ok) ==
  /\ phase = "alive"
  /\ call.pc = "inWhisper"
  /\ LET r == call.req
         s1 == [Cur EXCEPT !.call = IdleCall]
     IN \/ /\ ok
           /\ \E o \in recognizeFile(EmitFinished(s1, r), r, call.audioPath) :
                Install(o.s)
        \/ /\ ~ok
           /\ \E s2 \in Cleanup(EmitError(s1, r)) : Install(s2)
        \/ /\ ok
           /\ MainOverlap(Cur)
           /\ Install(Crash(Cur))

\* ---------------------------------------------------- worker thread steps
\* recognizeAudioAsync entry: the check of m_whisperCtx and m_audioSamples.
WorkerBegin(t) ==
  /\ phase = "alive"
  /\ thr[t].pc = "started"
  /\ IF m_whisperCtx = NoCtx \/ m_audioSamples = 0
     THEN Install(FinishThread(Cur, t, "error"))
     ELSE Install([Cur EXCEPT !.thr[t].pc = "transcribing"])

\* whisper_full has returned; the result or the error is queued.
WorkerEnd(t) ==
  /\ phase = "alive"
  /\ thr[t].pc = "transcribing"
  /\ \E s2 \in RunToEnd(Cur, t) : Install(s2)

\* --------------------------------------------- the caller's event loop
\* The next queued event: a completion lambda of recognizeAudioAsync, or the
\* deferred delete of a finished thread object.
DeliverEvent ==
  /\ MainIdle
  /\ posted # <<>>
  /\ LET e == Head(posted)
         s1 == [Cur EXCEPT !.posted = Tail(posted)]
     IN CASE e.type = "error" -> Install(EmitError(s1, e.req))
          [] e.type = "finished" ->
               Install([EmitFinished(s1, e.req) EXCEPT !.m_isRecognizing = FALSE])
          [] e.type = "delete" -> Install([s1 EXCEPT !.thr[e.req] = NoThr])

handleOnlineAPIReply(r, kind) ==
  /\ MainIdle
  /\ r \in netPending
  /\ LET s0 == [Cur EXCEPT !.netPending = @ \ {r}, !.netPreferred = @ \ {r}]
         s1 == IF kind \in {"text", "resultArray", "resultString"}
               THEN EmitFinished(s0, r)
               ELSE EmitError(s0, r)
     IN IF kind = "netError" /\ s1.m_preferOnlineAPI /\ s1.m_whisperCtx # NoCtx
           /\ s1.m_currentAudioFile # NoFile
        THEN \E o \in recognizeWithWhisper(s1, r, s1.m_currentAudioFile) :
               Install(o.s)
        ELSE \E s2 \in Cleanup(s1) : Install(s2)

\* ------------------------------------------------------------------ stop
StopWait(s) ==
  IF ~s.m_isRecognizing THEN {s}
  ELSE LET a == [s EXCEPT !.m_shouldStop = TRUE]
           t == s.m_recognitionThread
           W == IF t = NoThread THEN {a}
                ELSE IF s.thr[t].pc = "none" THEN {a, Crash(a)}
                ELSE IF ThreadRunning(a, t) THEN WaitThread(a, t)
                ELSE {a}
       IN {IF w.phase = "crashed" THEN w ELSE [w EXCEPT !.m_isRecognizing = FALSE]
           : w \in W}

Stop ==
  /\ MainIdle
  /\ \E s1 \in StopWait(Cur) :
       \E s2 \in (IF s1.phase = "crashed" THEN {s1} ELSE Cleanup(s1)) :
         Install(s2)

\* stop() called from a slot connected to recognitionProgress, which
\* extractAudioFromVideo emits in its polling loop while the decoder process
\* runs.  The process is a local QProcess of extractAudioFromVideo: stop()
\* has no handle on it, and the loop goes on when the slot returns.
StopInProgressSlot ==
  /\ phase = "alive"
  /\ call.pc = "extracting"
  /\ \E s1 \in StopWait(Cur) :
       \E s2 \in (IF s1.phase = "crashed" THEN {s1} ELSE Cleanup(s1)) :
         Install(s2)

\* --------------------------------------------------- settings changes
\* A SettingsManager setter changes the value and emits settingsChanged,
\* which is connected to SpeechRecognizer::applySettings.
SetWhisperPath(path) ==
  /\ MainIdle
  /\ s_whisperPath # path
  /\ Install(ApplySettings([Cur EXCEPT !.s_whisperPath = path]))

SetPreferOnlineAPI(prefer) ==
  /\ MainIdle
  /\ s_preferOnlineAPI # prefer
  /\ Install(ApplySettings([Cur EXCEPT !.s_preferOnlineAPI = prefer]))

SetApiUrl(url) ==
  /\ MainIdle
  /\ s_apiUrl # url
  /\ Install(ApplySettings([Cur EXCEPT !.s_apiUrl = url]))

\* ------------------------------------------------------------ initialize
InitializeThread(s) ==
  LET t == s.m_recognitionThread IN
  IF t = NoThread THEN {s}
  ELSE LET a == [s EXCEPT !.m_shouldStop = TRUE] IN
       IF s.thr[t].pc = "none"
       THEN \* wait() and delete on a destroyed object
            {Crash(a), [a EXCEPT !.m_recognitionThread = NoThread]}
       ELSE IF ThreadRunning(a, t)
       THEN {IF w.phase = "crashed" \/ ThreadRunning(w, t)
             THEN Crash(w)
             ELSE DeleteThread(w, t) : w \in WaitThread(a, t)}
       ELSE {DeleteThread(a, t)}

\* The model files found at the default locations when neither the argument
\* nor the settings name one.
DefaultModels == {"", "m1"}
\* The arguments initialize() is called with (MainWindow passes none).
InitializeArgs == {""}

InitializeRest(s, modelPath, dflt) ==
  LET s1 == [WriteSamples(s, 0) EXCEPT !.m_currentAudioFile = NoFile,
                                       !.m_isRecognizing = FALSE,
                                       !.m_shouldStop = FALSE]
      s2 == ApplySettings(s1)
      path == IF modelPath # "" THEN modelPath
              ELSE IF s2.s_whisperPath # "" THEN s2.s_whisperPath
              ELSE IF dflt # "" THEN dflt
              ELSE s2.m_whisperPath
      s3 == FreeCtx([s2 EXCEPT !.m_whisperPath = path])
  IN [(IF path \in ModelFiles THEN LoadCtx(s3, path) ELSE s3)
        EXCEPT !.m_networkManager = TRUE]

Initialize(modelPath, dflt) ==
  /\ MainIdle
  /\ \E s1 \in InitializeThread(Cur) :
       Install(IF s1.phase = "crashed" THEN s1
               ELSE InitializeRest(s1, modelPath, dflt))

\* ------------------------------------------------------------ destructor
Destroy ==
  /\ MainIdle
  /\ \E s1 \in Cleanup(Cur) :
       Install(IF s1.phase = "crashed" THEN s1
               ELSE [Gone(FreeCtx(s1)) EXCEPT !.thr = FreeCtx(s1).thr,
                                              !.phase = "destroyed"])

\* ------------------------------------------------------- specification
\* The state after the constructor ran with the SettingsManager defaults
\* (setDefaultValues): no model path, so no context is loaded.
Init ==
  /\ phase = "alive"
  /\ s_whisperPath = ""
  /\ s_apiUrl = DefaultApiUrl
  /\ s_preferOnlineAPI = FALSE
  /\ m_whisperPath = ""
  /\ m_whisperCtx = NoCtx
  /\ m_apiUrl = DefaultApiUrl
  /\ m_preferOnlineAPI = FALSE
  /\ m_isRecognizing = FALSE
  /\ m_shouldStop = FALSE
  /\ m_currentAudioFile = NoFile
  /\ m_tempAudioFile = NoFile
  /\ m_audioSamples = 0
  /\ m_recognitionThread = NoThread
  /\ m_networkManager = FALSE
  /\ disk = {InputAudio, InputVideo, InputVideo2}
  /\ thr = [t \in Reqs |-> NoThr]
  /\ netPending = {}
  /\ netPreferred = {}
  /\ posted = <<>>
  /\ call = IdleCall
  /\ nCtxLive = 0
  /\ ctxReleased = FALSE
  /\ nreq = 0
  /\ req = [r \in Reqs |-> NoReq]
  /\ reply = NoDoc
  /\ notified = NoNote
  /\ segments = <<>>
  /\ assembled = NoTranscript
  /\ dec = IdleDec
  /\ cfg = FreshCfg

NextNoStop ==
  \/ \E f \in {InputAudio} : RecognizeFile(f)
  \/ \E v \in {NoFile, InputVideo}, o \in {NoFile, ExplicitOut} :
       RecognizeFromVideoBegin(v, o)
  \/ \E oc \in DecoderOutcomes, w \in BOOLEAN, l \in BOOLEAN :
       RecognizeFromVideoExtracted(oc, w, l)
  \/ \E ok \in BOOLEAN : RecognizeFromVideoTranscribed(ok)
  \/ \E t \in Reqs : WorkerBegin(t)
  \/ \E t \in Reqs : WorkerEnd(t)
  \/ DeliverEvent
  \/ \E r \in Reqs, k \in ReplyKinds : handleOnlineAPIReply(r, k)
  \/ \E p \in SettingsPaths : SetWhisperPath(p)
  \/ \E b \in BOOLEAN : SetPreferOnlineAPI(b)
  \/ \E u \in ApiUrls : SetApiUrl(u)
  \/ \E p \in InitializeArgs, d \in DefaultModels : Initialize(p, d)
  \/ Destroy

Next == NextNoStop \/ Stop

Spec == Init /\ [][Next]_vars

\* The same program with a caller that never calls stop().
SpecNoStop == Init /\ [][NextNoStop]_vars

\* A caller that works on two videos, loads a model through the settings,
\* never passes an output path and uses neither recognizeFile nor the remote
\* backend.
NextTwoVideos ==
  \/ \E v \in {InputVideo, InputVideo2} : RecognizeFromVideoBegin(v, NoFile)
  \/ \E oc \in DecoderOutcomes, w \in BOOLEAN, l \in BOOLEAN :
       RecognizeFromVideoExtracted(oc, w, l)
  \/ \E ok \in BOOLEAN : RecognizeFromVideoTranscribed(ok)
  \/ \E t \in Reqs : WorkerBegin(t)
  \/ \E t \in Reqs : WorkerEnd(t)
  \/ DeliverEvent
  \/ \E p \in SettingsPaths : SetWhisperPath(p)
  \/ Stop

SpecTwoVideos == Init /\ [][NextTwoVideos]_vars

\* The two-video caller with a progress slot that calls stop().
NextStopInSlot == NextTwoVideos \/ StopInProgressSlot

SpecStopInSlot == Init /\ [][NextStopInSlot]_vars

\* The no-error branch of handleOnlineAPIReply applied to a reply body.
HandleReplyBody ==
  /\ reply # NoDoc
  /\ notified = NoNote
  /\ notified' = onlineReplyOutcome(reply)
  /\ UNCHANGED <<phase, s_whisperPath, s_apiUrl, s_preferOnlineAPI, m_whisperPath,
                 m_whisperCtx, m_apiUrl, m_preferOnlineAPI, m_isRecognizing,
                 m_shouldStop, m_currentAudioFile, m_tempAudioFile, m_audioSamples,
                 m_recognitionThread, m_networkManager, disk, thr, netPending,
                 netPreferred, posted, call, nCtxLive, ctxReleased, nreq, req,
                 reply, segments, assembled, dec, cfg>>

\* The recognizer as constructed, about to handle some reply body.
InitReply ==
  /\ phase = "alive"
  /\ s_whisperPath = ""
  /\ s_apiUrl = DefaultApiUrl
  /\ s_preferOnlineAPI = FALSE
  /\ m_whisperPath = ""
  /\ m_whisperCtx = NoCtx
  /\ m_apiUrl = DefaultApiUrl
  /\ m_preferOnlineAPI = FALSE
  /\ m_isRecognizing = FALSE
  /\ m_shouldStop = FALSE
  /\ m_currentAudioFile = NoFile
  /\ m_tempAudioFile = NoFile
  /\ m_audioSamples = 0
  /\ m_recognitionThread = NoThread
  /\ m_networkManager = FALSE
  /\ disk = {InputAudio, InputVideo, InputVideo2}
  /\ thr = [t \in Reqs |-> NoThr]
  /\ netPending = {}
  /\ netPreferred = {}
  /\ posted = <<>>
  /\ call = IdleCall
  /\ nCtxLive = 0
  /\ ctxReleased = FALSE
  /\ nreq = 0
  /\ req = [r \in Reqs |-> NoReq]
  /\ reply \in Docs
  /\ notified = NoNote
  /\ segments = <<>>
  /\ assembled = NoTranscript
  /\ dec = IdleDec
  /\ cfg = FreshCfg

NextReply == HandleReplyBody

SpecReply == InitReply /\ [][NextReply]_vars

\* The result assembly of the two local paths applied to the segments the
\* engine returned.
AssembleWorker ==
  /\ assembled = NoTranscript
  /\ assembled' = [path |-> "worker", text |-> workerText(segments, 1)]
  /\ UNCHANGED <<phase, s_whisperPath, s_apiUrl, s_preferOnlineAPI, m_whisperPath,
                 m_whisperCtx, m_apiUrl, m_preferOnlineAPI, m_isRecognizing,
                 m_shouldStop, m_currentAudioFile, m_tempAudioFile, m_audioSamples,
                 m_recognitionThread, m_networkManager, disk, thr, netPending,
                 netPreferred, posted, call, nCtxLive, ctxReleased, nreq, req,
                 reply, notified, segments, dec, cfg>>

AssembleExtraction ==
  /\ assembled = NoTranscript
  /\ assembled' = [path |-> "extraction", text |-> extractionText(segments, 1)]
  /\ UNCHANGED <<phase, s_whisperPath, s_apiUrl, s_preferOnlineAPI, m_whisperPath,
                 m_whisperCtx, m_apiUrl, m_preferOnlineAPI, m_isRecognizing,
                 m_shouldStop, m_currentAudioFile, m_tempAudioFile, m_audioSamples,
                 m_recognitionThread, m_networkManager, disk, thr, netPending,
                 netPreferred, posted, call, nCtxLive, ctxReleased, nreq, req,
                 reply, notified, segments, dec, cfg>>

InitSegments ==
  /\ phase = "alive"
  /\ s_whisperPath = ""
  /\ s_apiUrl = DefaultApiUrl
  /\ s_preferOnlineAPI = FALSE
  /\ m_whisperPath = ""
  /\ m_whisperCtx = NoCtx
  /\ m_apiUrl = DefaultApiUrl
  /\ m_preferOnlineAPI = FALSE
  /\ m_isRecognizing = FALSE
  /\ m_shouldStop = FALSE
  /\ m_currentAudioFile = NoFile
  /\ m_tempAudioFile = NoFile
  /\ m_audioSamples = 0
  /\ m_recognitionThread = NoThread
  /\ m_networkManager = FALSE
  /\ disk = {InputAudio, InputVideo, InputVideo2}
  /\ thr = [t \in Reqs |-> NoThr]
  /\ netPending = {}
  /\ netPreferred = {}
  /\ posted = <<>>
  /\ call = IdleCall
  /\ nCtxLive = 0
  /\ ctxReleased = FALSE
  /\ nreq = 0
  /\ req = [r \in Reqs |-> NoReq]
  /\ reply = NoDoc
  /\ notified = NoNote
  /\ segments \in SegmentLists
  /\ assembled = NoTranscript
  /\ dec = IdleDec
  /\ cfg = FreshCfg

NextSegments == AssembleWorker \/ AssembleExtraction

SpecSegments == InitSegments /\ [][NextSegments]_vars

\* The settings dialog over every settings file the program can start on.
InitSettings ==
  /\ phase = "alive"
  /\ s_whisperPath = ""
  /\ s_apiUrl = DefaultApiUrl
  /\ s_preferOnlineAPI = FALSE
  /\ m_whisperPath = ""
  /\ m_whisperCtx = NoCtx
  /\ m_apiUrl = DefaultApiUrl
  /\ m_preferOnlineAPI = FALSE
  /\ m_isRecognizing = FALSE
  /\ m_shouldStop = FALSE
  /\ m_currentAudioFile = NoFile
  /\ m_tempAudioFile = NoFile
  /\ m_audioSamples = 0
  /\ m_recognitionThread = NoThread
  /\ m_networkManager = FALSE
  /\ disk = {InputAudio, InputVideo, InputVideo2}
  /\ thr = [t \in Reqs |-> NoThr]
  /\ netPending = {}
  /\ netPreferred = {}
  /\ posted = <<>>
  /\ call = IdleCall
  /\ nCtxLive = 0
  /\ ctxReleased = FALSE
  /\ nreq = 0
  /\ req = [r \in Reqs |-> NoReq]
  /\ reply = NoDoc
  /\ notified = NoNote
  /\ segments = <<>>
  /\ assembled = NoTranscript
  /\ dec = IdleDec
  /\ cfg \in {CfgAfterStart(st) : st \in Stores}

SpecSettings == InitSettings /\ [][NextSettings]_vars

\* One recognizeFromVideo call at the level of its decoder processes.
SpecDecoder == Init /\ [][NextDecoder]_vars

\* ------------------------------------------------------------- claims
\* C1: at most one recognition request is in flight at any time, where in
\* flight means a decoder or transcription running inside recognizeFromVideo,
\* a worker thread that has not finished, or a remote reply still pending.
C1_SingleFlight == Cardinality(InFlightOf(Cur)) <= 1

\* C2: no step of the recognizer deletes the caller's input audio file or the
\* caller's explicit output file: once on disk, they stay on disk.
C2_CallerFilesKept ==
  [][\A f \in {InputAudio, ExplicitOut} : f \in disk => f \in disk']_vars

\* C3: a request made while the recognizer was idle never has more than one
\* terminal notification (recognitionFinished and recognitionError together).
C3_AtMostOneTerminal == \A r \in Reqs : req[r].idle0 => req[r].term <= 1

\* C4: with a caller that never stops, a request made while the recognizer
\* was idle and that has ended (nothing of it running, pending or queued) has
\* had at least one terminal notification.
C4_EndedHasTerminal ==
  phase = "alive" =>
    \A r \in 1..nreq :
      (req[r].idle0 /\ r \notin InFlightOf(Cur) /\ r \notin LambdasOf(Cur))
        => req[r].term >= 1

\* C5: once every request has ended, whatever its outcome (nothing running,
\* pending or queued any more), m_isRecognizing is false, so that the next
\* recognizeFile is not rejected.
C5_IdleAfterTerminal ==
  (phase = "alive" /\ call.pc = "idle" /\ nreq > 0
     /\ InFlightOf(Cur) = {} /\ LambdasOf(Cur) = {})
    => ~m_isRecognizing

\* C6: a recognizeFile or recognizeFromVideo call made while a request is in
\* flight changes neither the audio buffer, the current audio path, the
\* temp-file path, the files on disk nor m_isRecognizing.
C6_CallInFlightFrame ==
  [][(nreq' = nreq + 1 /\ InFlightOf(Cur) # {} /\ phase' = "alive")
       => UNCHANGED <<m_audioSamples, m_currentAudioFile, m_tempAudioFile,
                      disk, m_isRecognizing>>]_vars

\* C7: once every request has ended (nothing running, pending or queued any
\* more), the temporary audio file that recognizeFromVideo creates when given
\* no output path is not on disk.
C7_TempFileGone ==
  (phase = "alive" /\ call.pc = "idle"
     /\ InFlightOf(Cur) = {} /\ LambdasOf(Cur) = {})
    => TempAudio \notin disk

\* C8: the context a worker thread is transcribing with has not been freed.
C8_CtxNotFreedInUse ==
  \A t \in Reqs : thr[t].pc = "transcribing" => ~thr[t].ctxFreed

\* C9: m_audioSamples has not been cleared or rewritten since the worker
\* thread that is transcribing it began reading it.
C9_BufferNotTouchedInUse ==
  \A t \in Reqs : thr[t].pc = "transcribing" => ~thr[t].bufTouched

\* C10: at most one whisper_full call is running on the current context,
\* counting the worker threads and the call inside extractAudioFromVideo.
C10_OneTranscribe ==
  Cardinality({t \in Reqs : thr[t].pc = "transcribing" /\ ~thr[t].ctxFreed})
    + (IF call.pc = "inWhisper" THEN 1 ELSE 0) <= 1

\* C11: a recognizeFile call of an existing file made while the recognizer is
\* idle sends the
\* remote request when remote is preferred and the endpoint is set, or when
\* no model is loaded and the endpoint is set; it goes to the local backend
\* (a worker thread, or the local backend's own error) when a model is loaded
\* and remote is not (preferred and set); with no model and no endpoint it
\* emits one error and starts nothing.
C11_BackendChoice ==
  [][(RecognizeFile(InputAudio) /\ InputAudio \in disk /\ ~m_isRecognizing
        /\ InFlightOf(Cur) = {} /\ LambdasOf(Cur) = {})
     => LET r == nreq + 1
            P == m_preferOnlineAPI
            U == m_apiUrl # ""
            C == m_whisperCtx # NoCtx
            remote == r \in netPending'
            local == thr'[r].pc = "started"
            err == req'[r].term = 1
        IN /\ (P /\ U) => (remote /\ ~local /\ ~err)
           /\ (~(P /\ U) /\ C) => (~remote /\ (local \/ err))
           /\ (~P /\ ~C /\ U) => (remote /\ ~local /\ ~err)
           /\ (~C /\ ~U) => (~remote /\ ~local /\ err)]_vars

\* C12: while local is preferred, a model is loaded and an endpoint is set,
\* no step sends a remote request, and a recognizeFile call that gets past
\* its checks goes to the local backend (a worker thread is started, or the
\* local backend reports its own error).
C12_LocalFirst ==
  [][(~m_preferOnlineAPI /\ m_whisperCtx # NoCtx /\ m_apiUrl # "")
     => /\ netPending' \subseteq netPending
        /\ (RecognizeFile(InputAudio) /\ InputAudio \in disk /\ ~m_isRecognizing)
             => (thr'[nreq + 1].pc = "started" \/ req'[nreq + 1].term >= 1)]_vars

\* A worker thread was started for a request while local was preferred, a
\* model was loaded and an endpoint was set.
C12_Witness ==
  /\ ~m_preferOnlineAPI /\ m_whisperCtx # NoCtx /\ m_apiUrl # ""
  /\ m_networkManager
  /\ \E r \in Reqs : thr[r].pc = "started" /\ m_recognitionThread = r

\* C13: with remote preferred, an endpoint set and no model loaded, a request
\* starts no local attempt and is not turned down for the missing model: a
\* recognizeFile call of an existing file cannot start a worker thread or
\* emit an error, and a recognizeFromVideo call of an existing video can go
\* on to its extraction.
C13_RemoteDirect ==
  (m_preferOnlineAPI /\ m_apiUrl # "" /\ m_whisperCtx = NoCtx
     /\ MainIdle /\ nreq < MaxReq)
  => /\ (InputAudio \in disk /\ ~m_isRecognizing)
          => ~ENABLED (RecognizeFile(InputAudio)
                         /\ (thr'[nreq + 1].pc # "none" \/ req'[nreq + 1].term > 0))
     /\ (InputVideo \in disk)
          => ENABLED (RecognizeFromVideoBegin(InputVideo, NoFile)
                        /\ call'.pc = "extracting")

\* C14: when a reply that is a JSON object with neither "text" nor "result"
\* comes in for a pending request while a model is loaded and the audio file
\* is there, handling it can start the local fallback thread for that request.
C14_ParseErrorFallback ==
  \A r \in netPending :
    (MainIdle /\ m_whisperCtx # NoCtx /\ m_currentAudioFile # NoFile
       /\ m_currentAudioFile \in disk)
    => ENABLED (handleOnlineAPIReply(r, "noField") /\ thr'[r].pc = "started")

\* C15: when the transport-error reply comes in for a pending request that
\* was sent with remote as the preferred backend, while a model is loaded and
\* the request's audio file is still the current one, handling it can start
\* the local fallback thread for that request; and no request that has had a
\* local attempt has a remote request pending.
C15_OneLocalFallback ==
  /\ \A r \in netPreferred :
       (MainIdle /\ m_whisperCtx # NoCtx /\ m_currentAudioFile = InputAudio
          /\ InputAudio \in disk)
       => ENABLED (handleOnlineAPIReply(r, "netError") /\ thr'[r].pc = "started")
  /\ \A r \in netPending : thr[r].pc = "none"

\* C16: with local preferred, a model loaded and an endpoint set, a
\* recognizeFile call of an existing file made while idle does not report a
\* failure of the local attempt to the caller: no error is emitted by the
\* call itself (the remote attempt would come first).
C16_RemoteAfterLocalFailure ==
  [][(RecognizeFile(InputAudio) /\ InputAudio \in disk /\ ~m_isRecognizing
        /\ ~m_preferOnlineAPI /\ m_whisperCtx # NoCtx /\ m_apiUrl # ""
        /\ m_networkManager)
     => (req'[nreq + 1].term = 0 \/ nreq + 1 \in netPending')]_vars

\* C17: no backend is attempted twice for the same request: the request whose
\* transcription has just run on the caller's thread inside
\* extractAudioFromVideo gets no worker thread for a second local
\* transcription, and a request that has a worker thread gets no second one.
C17_NoBackendTwice ==
  [][/\ call.pc = "inWhisper" => thr'[call.req].pc # "started"
     /\ \A r \in Reqs :
          thr[r].pc \in {"transcribing", "finished"} => thr'[r].pc # "started"]_vars

\* C18: when stop() has returned, m_isRecognizing is false, m_audioSamples is
\* empty and no temporary extracted-audio file is on disk.
C18_StopPost ==
  [][(Stop /\ phase' = "alive")
     => (~m_isRecognizing' /\ m_audioSamples' = 0
           /\ TempAudio \notin disk' /\ TempAudio2 \notin disk')]_vars

\* C19: when stop() is called while the worker thread of the running request
\* has not yet begun whisper_full, that worker does not transcribe: no
\* result of it is queued for delivery when stop() has returned.
C19_StopBeforeTranscribe ==
  [][(Stop /\ phase' = "alive" /\ m_isRecognizing
        /\ m_recognitionThread # NoThread
        /\ thr[m_recognitionThread].pc = "started")
     => \A i \in DOMAIN posted' :
          ~(posted'[i].type = "finished" /\ posted'[i].req = m_recognitionThread)]_vars

\* C20: when stop() has returned, nothing of the stopped request is left to
\* be delivered: no remote reply is still awaited and no worker result or
\* error is queued for the GUI thread.
C20_NothingLeftAfterStop ==
  [][(Stop /\ phase' = "alive")
     => /\ netPending' = {}
        /\ \A i \in DOMAIN posted' : posted'[i].type \notin {"finished", "error"}]_vars

\* C21: a stop() issued while the decoder process of recognizeFromVideo runs
\* ends that process: when stop() has returned the decoder is no longer
\* running, and no temporary audio file is on disk.
C21_StopEndsDecoder ==
  [][(StopInProgressSlot /\ phase' = "alive")
     => (call'.pc # "extracting" /\ TempAudio \notin disk' /\ TempAudio2 \notin disk')]_vars

\* C22: the terminal notification of a request comes last: a step that
\* emits recognitionFinished or recognitionError for a request leaves no
\* backend attempt of that request running or started (no worker thread, no
\* pending reply, no transcription inside recognizeFromVideo).
C22_TerminalComesLast ==
  [][phase' = "alive"
     => \A r \in Reqs : req'[r].term > req[r].term => r \notin InFlightOf(Cur)']_vars

\* C23: no notification of a later request is delivered by a backend while
\* an earlier request is still in flight and has had no terminal
\* notification.
C23_RequestOrder ==
  [][(phase' = "alive" /\ nreq' = nreq)
     => \A q \in Reqs, r \in Reqs :
          (q < r /\ req'[r].term > req[r].term)
            => ~(req[q].term = 0 /\ q \in InFlightOf(Cur))]_vars

\* C24: whenever the recognizer is idle after a request (nothing running,
\* nothing pending, nothing queued, not recognizing), the audio buffer
\* m_audioSamples is empty.
C24_BufferEmptyWhenIdle ==
  (/\ phase = "alive" /\ call.pc = "idle" /\ nreq > 0
   /\ ~m_isRecognizing
   /\ InFlightOf(Cur) = {} /\ LambdasOf(Cur) = {})
  => m_audioSamples = 0

\* C25: at most one whisper context exists per recognizer: while the
\* recognizer lives, the number of contexts created and not yet freed is one
\* when m_whisperCtx points to a context and zero when it is null (so every
\* load came after the release of the previous context and no free hits a
\* freed context), and after the destructor none is left.
C25_OneContext ==
  /\ phase = "alive" => nCtxLive = (IF m_whisperCtx # NoCtx THEN 1 ELSE 0)
  /\ phase = "destroyed" => nCtxLive = 0

\* A second model has replaced the first one: a context was released and
\* another one is loaded.
C25_Witness ==
  /\ phase = "alive"
  /\ ctxReleased
  /\ m_whisperCtx # NoCtx
  /\ nCtxLive = 1

\* C26: while the decoder wait or the whisper_full call of
\* recognizeFromVideo is in progress, the caller's thread can still issue
\* stop() (from its event loop or from a slot of a progress notification).
C26_CallerNotBlocked ==
  (phase = "alive" /\ call.pc \in {"extracting", "inWhisper"})
    => ENABLED (Stop \/ StopInProgressSlot)

\* C27: a call of recognizeFile that returns false (it started no worker
\* thread and sent no request) has emitted exactly one recognitionError.
C27_FalseMeansOneError ==
  [][(/\ RecognizeFile(InputAudio)
      /\ phase' = "alive"
      /\ thr'[nreq + 1].pc = "none"
      /\ (nreq + 1) \notin netPending')
     => req'[nreq + 1].term = 1]_vars

\* C28: for a reply body of an accepted shape the transcript is the value of
\* "text" when "text" is a string; without "text", the value of "result"
\* when it is a string, and the elements of "result" one after the other with
\* nothing between them when it is an array of strings: ["a","b","c"] gives
\* "abc" and "xyz" gives "xyz".
C28_RemoteTranscript ==
  notified # NoNote =>
    /\ (reply.kind = "object" /\ reply.text.t = "string")
         => notified = [sig |-> "finished", text |-> reply.text.s]
    /\ (reply.kind = "object" /\ reply.text.t = "absent" /\ reply.result.t = "string")
         => notified = [sig |-> "finished", text |-> reply.result.s]
    /\ (/\ reply.kind = "object" /\ reply.text.t = "absent"
        /\ reply.result.t = "array"
        /\ \A i \in 1..Len(reply.result.a) : reply.result.a[i].t = "string")
         => /\ notified.sig = "finished"
            /\ LET arr == reply.result.a
                   txt == notified.text
               IN \E cut \in [0..Len(arr) -> 0..Len(txt)] :
                    /\ cut[0] = 0
                    /\ cut[Len(arr)] = Len(txt)
                    /\ \A i \in 1..Len(arr) :
                         /\ cut[i - 1] <= cut[i]
                         /\ SubSeq(txt, cut[i - 1] + 1, cut[i]) = arr[i].s
    /\ (/\ reply.kind = "object" /\ reply.text.t = "absent"
        /\ reply.result = JArr(<<JStr("a"), JStr("b"), JStr("c")>>))
         => notified.text = "abc"

\* The reply {"result": ["a","b","c"]} was handled and gave "abc".
C28_Witness ==
  /\ reply = [kind |-> "object", text |-> JAbsent,
              result |-> JArr(<<JStr("a"), JStr("b"), JStr("c")>>)]
  /\ notified = [sig |-> "finished", text |-> "abc"]

\* C29: recognitionFinished is emitted for a reply body only when the body
\* is an object with a string "text", a string "result" or a "result" that is
\* an array of strings.
C29_FinishedOnlyForAcceptedShape ==
  notified.sig = "finished" =>
    /\ reply.kind = "object"
    /\ \/ reply.text.t = "string"
       \/ reply.result.t = "string"
       \/ /\ reply.result.t = "array"
          /\ \A i \in 1..Len(reply.result.a) : reply.result.a[i].t = "string"

\* C30: the transcript of a local result is the segments in order with
\* exactly one separator (a blank on the worker path, a newline on the
\* extraction path) between two segments and none before the first or after
\* the last; "hello", "world" give "hello world" on the worker path.
C30_SegmentsJoined ==
  assembled # NoTranscript =>
    LET sep == IF assembled.path = "worker" THEN " " ELSE "\n"
        txt == assembled.text
        n == Len(segments)
    IN /\ n = 0 => txt = ""
       /\ \E cut \in [0..n -> 0..Len(txt)] :
            /\ cut[0] = 0
            /\ cut[n] = Len(txt)
            /\ \A i \in 1..n :
                 IF i = 1
                 THEN SubSeq(txt, 1, cut[1]) = segments[1]
                 ELSE /\ SubSeq(txt, cut[i - 1] + 1, cut[i - 1] + 1) = sep
                      /\ SubSeq(txt, cut[i - 1] + 2, cut[i]) = segments[i]
       /\ (segments = <<"hello", "world">> /\ assembled.path = "worker")
            => txt = "hello world"

\* C31: a request made while nothing else was going on whose extraction
\* fails (input unreadable, decoder unavailable, start failure, timeout,
\* non-zero exit code, output file missing) ends with exactly one
\* recognitionError, its temporary file removed, the recognizer idle and no
\* backend attempt started.
C31_ExtractionFailure ==
  [][\A r \in Reqs :
       (/\ req'[r].idle0
        /\ \/ /\ call.pc = "extracting" /\ call.req = r
              /\ \E oc \in DecoderOutcomes, w \in BOOLEAN :
                   RecognizeFromVideoExtracted(oc, w, TRUE)
              /\ call'.pc # "inWhisper"
           \/ /\ r = nreq + 1
              /\ \E o \in {NoFile, ExplicitOut} : RecognizeFromVideoBegin(InputVideo, o)
              /\ call'.pc = "idle")
       => /\ phase' = "alive"
          /\ req'[r].term = req[r].term + 1
          /\ ~m_isRecognizing'
          /\ TempOf(InputVideo) \notin disk'
          /\ thr'[r].pc = "none"
          /\ r \notin netPending']_vars

\* C32: once the decoder has exited with code 0 and the output file exists,
\* the extraction step has succeeded: the request does not end as a failed
\* extraction (error and cleanup, no backend selection) because of what the
\* transcription returns.
C32_ExtractionOutcome ==
  [][(call.pc = "inWhisper" /\ call.audioPath \in disk /\ phase' = "alive")
     => ~RecognizeFromVideoTranscribed(FALSE)]_vars

\* C33: the fallback decision for a pending remote request is the one of
\* the preference the request was accepted with: a transport error falls
\* back to the local model (when one is loaded and the file is there) if the
\* request was sent with remote preferred, and starts no local attempt if it
\* was sent with local preferred.
C33_PreferenceFixedAtAcceptance ==
  \A r \in netPending :
    (MainIdle /\ m_whisperCtx # NoCtx /\ m_currentAudioFile = InputAudio
       /\ InputAudio \in disk)
    => (r \in netPreferred
          <=> ENABLED (handleOnlineAPIReply(r, "netError") /\ thr'[r].pc = "started"))

\* C34: when the model path of the settings is changed while the recognizer
\* is idle, the context that is loaded after applySettings (if any) was
\* loaded from the path now in the settings.
C34_ContextFollowsSettings ==
  [][(/\ \E p \in SettingsPaths : SetWhisperPath(p)
      /\ ~m_isRecognizing /\ InFlightOf(Cur) = {} /\ LambdasOf(Cur) = {}
      /\ phase' = "alive")
     => (m_whisperCtx' # NoCtx => m_whisperCtx' = s_whisperPath')]_vars

\* C35: a decoder process that is still running when its completion timeout
\* expires is killed and the step returns an error, and once
\* extractAudioFromVideo, loadAudioFile or isFfmpegAvailable has returned no
\* decoder process started by that call is running: the probe's process is
\* never left running, the extracting process runs only inside the polling
\* loop and for no longer than its limit and one poll, the loading process
\* runs only inside the read loop and for less than its limit, and a timeout
\* in any of the three leaves the process killed and the call failed with
\* one error.
C35_TimeoutKills ==
  /\ dec.probeProc # "running"
  /\ dec.ffmpeg = "running"
       => dec.pc = "extracting" /\ dec.clock <= maxProcessTime + ReadWait
  /\ dec.loader = "running" => dec.pc = "loading" /\ dec.clock < maxWaitTime
  /\ dec.ret = "extractTimeout" => dec.ffmpeg = "killed" /\ dec.errors = 1
  /\ dec.total >= maxWaitTime
       => dec.loader = "killed" /\ dec.ret = "loadTimeout" /\ dec.errors = 1
  /\ \A i \in 1..Len(dec.probes) :
       (dec.probes[i].started /\ ~dec.probes[i].finished)
         => dec.probeProc = "killed" /\ dec.ret = "unavailable" /\ dec.errors = 1

\* The extracting process ran past its limit, was killed, and the call failed.
C35_Witness ==
  /\ dec.ret = "extractTimeout"
  /\ dec.clock > maxProcessTime
  /\ dec.ffmpeg = "killed"

\* C36: no extracting process is spawned unless the version probe succeeded
\* earlier in the same call; the probe succeeds exactly when its process
\* starts, finishes inside the timeout, exits with code 0 and prints
\* "ffmpeg version"; a failed probe ends the request with one
\* decoder-unavailable error.
C36_ProbeGatesExtraction ==
  /\ dec.ffmpeg # "none" => Len(dec.probes) = 2
  /\ \A i \in 1..Len(dec.probes) :
       LET p == dec.probes[i]
           good == p.started /\ p.finished /\ p.exitCode = 0 /\ p.version
       IN /\ (dec.ffmpeg # "none" \/ i < Len(dec.probes)) => good
          /\ ~good => /\ i = Len(dec.probes)
                      /\ dec.pc = "returned"
                      /\ dec.ret = "unavailable"
                      /\ dec.errors = 1
                      /\ dec.ffmpeg = "none"
          /\ (good /\ i = Len(dec.probes)) => dec.ret # "unavailable"

\* Both probes of the call succeeded and the extracting process is running.
C36_Witness ==
  /\ Len(dec.probes) = 2
  /\ dec.ffmpeg = "running"
  /\ dec.pc = "extracting"

\* C37: within one request the values of recognitionProgress lie in 0..100
\* and never decrease, the values emitted during extraction are at most 50
\* and the values emitted during a transcription attempt, local or remote,
\* are at least 50.
C37_ProgressMonotone ==
  [][dec'.prog # dec.prog
       => /\ dec'.prog \in 0..100
          /\ dec'.prog >= dec.prog
          /\ dec'.stage = "extraction" => dec'.prog <= 50
          /\ dec'.stage = "transcription" => dec'.prog >= 50]_vars

\* C38: loadAudioFile reports a read timeout only when the decoder is still
\* running after the 30 seconds have really elapsed; a decoder that delivers
\* its output promptly and then exits with code 0 is loaded however many
\* reads its output arrives in.
C38_TimeoutOnlyAfterBudget ==
  dec.ret = "loadTimeout" => dec.clock >= maxWaitTime


\* C39: the worker-thread handle m_recognitionThread is never used after the
\* thread object was destroyed by the deleteLater connected to its finished
\* signal: whenever stop(), initialize() or the destructor runs, each of
\* which reads the handle, the handle is null or names a thread object that
\* still exists.
C39_HandleNeverDangling ==
  [][(\/ Stop
      \/ Destroy
      \/ \E p \in InitializeArgs, d \in DefaultModels : Initialize(p, d))
     => \/ m_recognitionThread = NoThread
        \/ thr[m_recognitionThread].pc # "none"]_vars


\* C40: after saveSettingsFromUI has returned, with the main window
\* subscribed to settingsChanged, every getter of the SettingsManager returns
\* the value the dialog set and the persisted store holds the same values.
C40_DialogValuesSaved ==
  cfg.saved => /\ cfg.mem = cfg.ui
               /\ cfg.store.present
               /\ cfg.store.v = cfg.ui

====
